---- MODULE Spec2Model ----
(***************************************************************************)
(* SEO Checker V2 server (server.js): the scan flows /api/analyze and      *)
(* /api/selective-scan, the review endpoint /api/reviews/update and the    *)
(* three JSON stores (scan results, URL reviews, change history); the page  *)
(* analysis, URL tree and summaries; the dashboard's result filters.        *)
(* Every async handler is cut at its awaits: one action per continuation.  *)
(***************************************************************************)
EXTENDS Integers, Sequences, FiniteSets, TLC

VARIABLES activeAnalysis, flow, scanResults, urlReviews, changeHistory,
          nAppended, lastResponse, nreq, lastEvent, ru, ackReview, nrev, dashboard,
          files, crawler, parser

vars == <<activeAnalysis, flow, scanResults, urlReviews, changeHistory,
          nAppended, lastResponse, nreq, lastEvent, ru, ackReview, nrev, dashboard,
          files, crawler, parser>>

\* the state of the server
server == <<activeAnalysis, flow, scanResults, urlReviews, changeHistory,
            nAppended, lastResponse, nreq, lastEvent, ru, ackReview, nrev>>

stores == <<scanResults, urlReviews, changeHistory, nAppended>>

\* the closer views of three steps: the data files by storage key, the chunked crawl of one
\* scan, the expansion of the sitemap documents
detail == <<files, crawler, parser>>

(* ---------------- values ---------------- *)
NULL == "null"
UNDEF == "undefined"
NoAnalysis == 0

Urls == {"u1", "u2"}
ReviewStatuses == {"reviewed"}
\* the assignee and notes of a review request: updateReviewStatus sends { url, status } only
ReviewAssignees == {UNDEF}
ReviewNotes == {UNDEF}

\* what a fetched page can hold: <<title, meta description>> after trim() || null
Pages == { <<"t1", "m1">>, <<"t1", "m2">>, <<"t2", "m1">> }

(* ---------------- bounds ---------------- *)
MaxScanFlows == 2
MaxRequests == 2
MaxReviewUpdates == 1
MaxSitemapLen == 2
MaxLedgerAppends == 1300

(* ---------------- program constants ---------------- *)
DefaultMaxPages == 100
MaxHistory == 1000
MinDescLen == 120
MaxDescLen == 160

ScanIds == 1..MaxScanFlows
ScanModes == {"full", "incremental"}
MaxPagesOptions == {1, DefaultMaxPages}

RECURSIVE SeqsUpTo(_)
SeqsUpTo(n) ==
  IF n = 0 THEN { <<>> }
  ELSE LET prev == SeqsUpTo(n - 1)
       IN prev \cup { Append(s, u) : s \in { t \in prev : Len(t) = n - 1 }, u \in Urls }

UrlLists == SeqsUpTo(MaxSitemapLen)

Min(a, b) == IF a < b THEN a ELSE b

(* ---------------- pure helpers of server.js ---------------- *)
NoReview ==
  [present |-> FALSE, status |-> UNDEF, assignee |-> UNDEF, notes |-> UNDEF,
   lastReviewed |-> UNDEF, analyzed |-> FALSE]

\* the merge without its default: review?.status
ReviewStatusOf_noDefault(review) ==
  IF review.present /\ review.status # UNDEF THEN review.status ELSE UNDEF

\* review?.status || 'new'
ReviewStatusOf(review) ==
  IF review.present /\ review.status # UNDEF THEN review.status ELSE "new"

\* value || null
OrNull(value) == IF value \in {UNDEF, NULL} THEN NULL ELSE value

\* review?.assignee || null, review?.notes || null, review?.lastReviewed || null
ReviewFieldOf(review, field) == IF review.present THEN OrNull(review[field]) ELSE NULL

\* the length of a page's meta description
CharacterCount(metaDescription) ==
  CASE metaDescription = "m1" -> 140
    [] metaDescription = "m2" -> 100
    [] metaDescription = "d119" -> MinDescLen - 1
    [] metaDescription = "d120" -> MinDescLen
    [] metaDescription = "d160" -> MaxDescLen
    [] metaDescription = "d161" -> MaxDescLen + 1
    [] OTHER -> 0

\* MetaExtractor.analyzeIssues: the length checks, then the content checks
AnalyzeIssues(characterCount, contentIssues) ==
  IF characterCount = 0 THEN << "Missing meta description" >>
  ELSE (IF characterCount < MinDescLen THEN << "Meta description too short" >>
        ELSE IF characterCount > MaxDescLen THEN << "Meta description too long" >>
        ELSE << >>) \o contentIssues

\* MetaExtractor.extractMetaData: status = issues.length > 0 ? 'needs_attention' : 'good'
ExtractStatus(issues) == IF Len(issues) > 0 THEN "needs_attention" ELSE "good"

\* Array.prototype.findIndex(r => r.url === url), 1-based, 0 when absent
FindIndex(results, url) ==
  IF \E k \in 1..Len(results) : results[k].url = url
  THEN CHOOSE k \in 1..Len(results) :
         /\ results[k].url = url
         /\ \A j \in 1..(k - 1) : results[j].url # url
  ELSE 0

UrlsOf(results) == { results[k].url : k \in 1..Len(results) }

\* WebCrawler.fetchPage: the result of one fetch
CrawlOk(url, page) ==
  [url |-> url, success |-> TRUE, title |-> page[1], metaDescription |-> page[2], error |-> UNDEF]
CrawlFailed(url) ==
  [url |-> url, success |-> FALSE, title |-> NULL, metaDescription |-> NULL, error |-> "timeout"]

\* MetaExtractor.processPages
ProcessPage(result) ==
  IF ~result.success
  THEN [url |-> result.url, title |-> NULL, metaDescription |-> NULL,
        hasMetaDescription |-> FALSE, characterCount |-> 0,
        status |-> "error", issues |-> << "Failed to fetch: " \o result.error >>,
        reviewStatus |-> UNDEF, assignee |-> UNDEF, notes |-> UNDEF, lastReviewed |-> UNDEF,
        hasChanged |-> UNDEF, changeType |-> UNDEF]
  ELSE LET issues == AnalyzeIssues(CharacterCount(result.metaDescription), << >>)
       IN [url |-> result.url, title |-> result.title, metaDescription |-> result.metaDescription,
           hasMetaDescription |-> result.metaDescription # NULL,
           characterCount |-> CharacterCount(result.metaDescription),
           status |-> ExtractStatus(issues), issues |-> issues,
           reviewStatus |-> UNDEF, assignee |-> UNDEF, notes |-> UNDEF, lastReviewed |-> UNDEF,
           hasChanged |-> UNDEF, changeType |-> UNDEF]

\* the map that leaves out the results of failed fetches
ProcessPages_skipFailed(crawlResults) ==
  LET fetched == SelectSeq(crawlResults, LAMBDA r : r.success)
  IN [k \in 1..Len(fetched) |-> ProcessPage(fetched[k])]

\* crawlResults.map(result => ...)
ProcessPages(crawlResults) == [k \in 1..Len(crawlResults) |-> ProcessPage(crawlResults[k])]

\* updatedReviews = { ...reviews }; forEach result: { ...existingReview, seoStatus, hasIssues, lastAnalyzed }
UpdatedReviews(reviews, analysisResults) ==
  [u \in Urls |->
     IF u \in UrlsOf(analysisResults)
     THEN [reviews[u] EXCEPT !.present = TRUE, !.analyzed = TRUE]
     ELSE reviews[u]]

\* { ...result, reviewStatus: review?.status || 'new', ... }
WithReview(result, reviews) ==
  [result EXCEPT !.reviewStatus = ReviewStatusOf(reviews[result.url]),
                 !.assignee = ReviewFieldOf(reviews[result.url], "assignee"),
                 !.notes = ReviewFieldOf(reviews[result.url], "notes"),
                 !.lastReviewed = ReviewFieldOf(reviews[result.url], "lastReviewed")]

\* existingWithReviews: review?.status || result.reviewStatus || 'new'
ExistingWithReview(result, reviews) ==
  LET review == reviews[result.url]
      Field(f) == IF ReviewFieldOf(review, f) # NULL THEN ReviewFieldOf(review, f)
                  ELSE OrNull(result[f])
  IN [result EXCEPT !.reviewStatus =
                       IF review.present /\ review.status # UNDEF THEN review.status
                       ELSE IF result.reviewStatus # UNDEF THEN result.reviewStatus ELSE "new",
                    !.assignee = Field("assignee"),
                    !.notes = Field("notes"),
                    !.lastReviewed = Field("lastReviewed")]

\* newResults.forEach: replace when allUrls has the url, else push (allUrls is not extended)
RECURSIVE MergeNew(_, _, _, _)
MergeNew(final, allUrls, newResults, k) ==
  IF k > Len(newResults) THEN final
  ELSE IF newResults[k].url \in allUrls
       THEN MergeNew([final EXCEPT ![FindIndex(final, newResults[k].url)] = newResults[k]],
                     allUrls, newResults, k + 1)
       ELSE MergeNew(Append(final, newResults[k]), allUrls, newResults, k + 1)

\* finalResults of /api/analyze
AnalyzeFinalResults(scanMode, existingResults, reviews, newResults) ==
  IF scanMode = "incremental" /\ Len(existingResults) > 0
  THEN MergeNew([k \in 1..Len(existingResults) |-> ExistingWithReview(existingResults[k], reviews)],
                UrlsOf(existingResults), newResults, 1)
  ELSE newResults

ChangeEvent(url, type, old, new) ==
  [url |-> url, changeType |-> type, oldValue |-> old, newValue |-> new]

\* the same detection with the description compared against the wrong field
DetectChange_wrongField(existingResults, result) ==
  LET idx == FindIndex(existingResults, result.url)
      old == existingResults[idx]
      metaChanged == idx # 0 /\ old.metaDescription # result.title
      titleChanged == idx # 0 /\ old.title # result.title
  IN [hasChanged |-> IF idx = 0 \/ metaChanged \/ titleChanged THEN "true" ELSE "false",
      changeType |-> IF idx = 0 THEN "new" ELSE IF metaChanged THEN "modified" ELSE NULL,
      events |->
        IF idx = 0
        THEN << ChangeEvent(result.url, "new_url", UNDEF, result.metaDescription) >>
        ELSE (IF metaChanged
              THEN << ChangeEvent(result.url, "meta_description", old.metaDescription, result.metaDescription) >>
              ELSE << >>)
             \o
             (IF titleChanged
              THEN << ChangeEvent(result.url, "title", old.title, result.title) >>
              ELSE << >>)]

\* /api/analyze change detection for one result of finalResults
DetectChange(existingResults, result) ==
  LET idx == FindIndex(existingResults, result.url)
      old == existingResults[idx]
      metaChanged == idx # 0 /\ old.metaDescription # result.metaDescription
      titleChanged == idx # 0 /\ old.title # result.title
  IN [hasChanged |-> IF idx = 0 \/ metaChanged \/ titleChanged THEN "true" ELSE "false",
      changeType |-> IF idx = 0 THEN "new" ELSE IF metaChanged THEN "modified" ELSE NULL,
      events |->
        IF idx = 0
        THEN << ChangeEvent(result.url, "new_url", UNDEF, result.metaDescription) >>
        ELSE (IF metaChanged
              THEN << ChangeEvent(result.url, "meta_description", old.metaDescription, result.metaDescription) >>
              ELSE << >>)
             \o
             (IF titleChanged
              THEN << ChangeEvent(result.url, "title", old.title, result.title) >>
              ELSE << >>)]

\* timestampedResults of /api/analyze
AnalyzeStamped(existingResults, finalResults) ==
  [k \in 1..Len(finalResults) |->
     LET d == DetectChange(existingResults, finalResults[k])
     IN [finalResults[k] EXCEPT !.hasChanged = d.hasChanged, !.changeType = d.changeType]]

\* changesDetected of /api/analyze
RECURSIVE AnalyzeChanges(_, _, _)
AnalyzeChanges(existingResults, finalResults, k) ==
  IF k > Len(finalResults) THEN << >>
  ELSE DetectChange(existingResults, finalResults[k]).events
       \o AnalyzeChanges(existingResults, finalResults, k + 1)

\* timestampedResults of /api/selective-scan for one analysis result
SelectiveStampedOne(existingResults, reviews, result) ==
  LET idx == FindIndex(existingResults, result.url)
      old == existingResults[idx]
  IN [result EXCEPT
        !.reviewStatus = ReviewStatusOf(reviews[result.url]),
        !.assignee = ReviewFieldOf(reviews[result.url], "assignee"),
        !.notes = ReviewFieldOf(reviews[result.url], "notes"),
        !.lastReviewed = ReviewFieldOf(reviews[result.url], "lastReviewed"),
        !.hasChanged = IF idx = 0 THEN UNDEF
                       ELSE IF old.metaDescription # result.metaDescription THEN "true" ELSE "false",
        !.changeType = IF idx = 0 THEN "new"
                       ELSE IF old.metaDescription # result.metaDescription THEN "modified" ELSE NULL]

SelectiveStamped(existingResults, reviews, analysisResults) ==
  [k \in 1..Len(analysisResults) |-> SelectiveStampedOne(existingResults, reviews, analysisResults[k])]

\* finalResults of /api/selective-scan: replace in place, else push
RECURSIVE SelectiveFinalResults(_, _, _)
SelectiveFinalResults(final, stamped, k) ==
  IF k > Len(stamped) THEN final
  ELSE LET idx == FindIndex(final, stamped[k].url)
       IN IF idx # 0
          THEN SelectiveFinalResults([final EXCEPT ![idx] = stamped[k]], stamped, k + 1)
          ELSE SelectiveFinalResults(Append(final, stamped[k]), stamped, k + 1)

\* the slice taken from the wrong end
KeepLast_oldest(history) == SubSeq(history, 1, MaxHistory)

\* history.slice(-1000)
KeepLast(history) ==
  SubSeq(history, Len(history) - MaxHistory + 1, Len(history))

\* saveChangeHistory: push, then keep only the last 1000
SaveChangeHistory(history, changes) ==
  LET h == history \o changes
  IN IF Len(h) > MaxHistory THEN KeepLast(h) ELSE h

\* the cap that keeps the last maxPages urls
CapUrls_last(urls, maxPages) ==
  IF Len(urls) > maxPages THEN SubSeq(urls, Len(urls) - maxPages + 1, Len(urls)) ELSE urls

\* urls.slice(0, maxPages) when urls.length > maxPages
CapUrls(urls, maxPages) ==
  IF Len(urls) > maxPages THEN SubSeq(urls, 1, maxPages) ELSE urls

\* the filter that keeps every url
FilterNew_keepAll(urls, existingUrls) == urls

\* urls.filter(url => !existingUrls.has(url))
RECURSIVE FilterNew(_, _)
FilterNew(urls, existingUrls) ==
  IF urls = << >> THEN << >>
  ELSE IF Head(urls) \in existingUrls
       THEN FilterNew(Tail(urls), existingUrls)
       ELSE << Head(urls) >> \o FilterNew(Tail(urls), existingUrls)

(* ---------------- state ---------------- *)
NoReviews == [u \in Urls |-> NoReview]

IdleFlow ==
  [kind |-> "none", pc |-> "idle", id |-> NoAnalysis, scanMode |-> "full", maxPages |-> DefaultMaxPages,
   urls |-> << >>, reviews |-> NoReviews, existingResults |-> << >>,
   crawlResults |-> << >>, finalResults |-> << >>, timestampedResults |-> << >>,
   changesDetected |-> << >>, history |-> << >>]

NoEvent == [type |-> "none", payload |-> "none", results |-> << >>]
NoReviewUpdate ==
  [pc |-> "idle", url |-> "u1", status |-> UNDEF, assignee |-> UNDEF, notes |-> UNDEF,
   reviews |-> NoReviews]

\* SEOCheckerV2 constructor: no results, view 'all', nothing hidden, empty filter controls
NoDashboard ==
  [loaded |-> FALSE, currentResults |-> << >>, filteredResults |-> << >>,
   currentView |-> "all", hideDone |-> FALSE,
   searchFilter |-> "", statusFilter |-> "", reviewStatusFilter |-> ""]

\* no data file written yet
NoFiles == [key \in {} |-> << >>]

\* no crawl under way
IdleCrawler ==
  [pc |-> "idle", urls |-> << >>, chunkSize |-> 0, chunkIndex |-> 0, i |-> 0,
   processedCount |-> 0, allResults |-> << >>, results |-> << >>,
   events |-> << >>, log |-> << >>]

\* no sitemap expansion under way
IdleParser == [pc |-> "idle", fetching |-> NULL, stack |-> << >>]

Init ==
  /\ dashboard = NoDashboard
  /\ files = NoFiles
  /\ crawler = IdleCrawler
  /\ parser = [i \in ScanIds |-> IdleParser]
  /\ activeAnalysis = NoAnalysis
  /\ flow = [i \in ScanIds |-> IdleFlow]
  /\ scanResults = << >>
  /\ urlReviews = NoReviews
  /\ changeHistory = << >>
  /\ nAppended = 0
  /\ lastResponse = "none"
  /\ nreq = 0
  /\ lastEvent = NoEvent
  /\ ru = NoReviewUpdate
  /\ ackReview = [u \in Urls |-> UNDEF]
  /\ nrev = 0

AnalysisInProgress_unchecked == FALSE

\* if (activeAnalysis) return res.status(429)
AnalysisInProgress == activeAnalysis # NoAnalysis

\* the handler instance that serves an accepted request
FreeSlot(i) == flow[i].pc = "idle" /\ \A j \in ScanIds : j < i => flow[j].pc # "idle"

Finally_skipped(i) == UNCHANGED activeAnalysis

\* catch { io.emit('error') } finally { activeAnalysis = null }
Finally(i) == activeAnalysis' = NoAnalysis

(* ---------------- POST /api/analyze ---------------- *)
SetFlow(i, f) == flow' = [flow EXCEPT ![i] = f]

AnalyzeRequest(scanMode, maxPages) ==
  /\ nreq < MaxRequests
  /\ nreq' = nreq + 1
  /\ IF AnalysisInProgress
     THEN /\ lastResponse' = "rejected"
          /\ UNCHANGED <<activeAnalysis, flow>>
     ELSE /\ \E i \in ScanIds :
               /\ FreeSlot(i)
               /\ SetFlow(i, [IdleFlow EXCEPT !.kind = "analyze", !.pc = "parse", !.id = nreq + 1,
                                              !.scanMode = scanMode, !.maxPages = maxPages])
          /\ activeAnalysis' = nreq + 1
          /\ lastResponse' = "started"
  /\ UNCHANGED <<stores, lastEvent, ru, ackReview, nrev>>
  /\ UNCHANGED <<dashboard, detail>>

\* await sitemapParser.getAllUrls(sitemapUrl) resolves
AnalyzeParsed(i, urls) ==
  /\ flow[i].kind = "analyze" /\ flow[i].pc = "parse"
  /\ SetFlow(i, [flow[i] EXCEPT !.urls = urls, !.pc = "loadReviews"])
  /\ UNCHANGED <<activeAnalysis, stores, lastResponse, nreq, lastEvent, ru, ackReview, nrev>>
  /\ UNCHANGED <<dashboard, detail>>

\* await loadUrlReviews()
AnalyzeLoadReviews(i) ==
  /\ flow[i].kind = "analyze" /\ flow[i].pc = "loadReviews"
  /\ SetFlow(i, [flow[i] EXCEPT !.reviews = urlReviews, !.pc = "loadResults"])
  /\ UNCHANGED <<activeAnalysis, stores, lastResponse, nreq, lastEvent, ru, ackReview, nrev>>
  /\ UNCHANGED <<dashboard, detail>>

\* await loadScanResults(sitemapUrl), the incremental filter, the early return, the maxPages cap
AnalyzeLoadResults(i) ==
  /\ flow[i].kind = "analyze" /\ flow[i].pc = "loadResults"
  /\ LET existingResults == scanResults
         newUrls == FilterNew(flow[i].urls, UrlsOf(existingResults))
         urls == CapUrls(IF flow[i].scanMode = "incremental" THEN newUrls ELSE flow[i].urls,
                         flow[i].maxPages)
     IN IF flow[i].scanMode = "incremental" /\ newUrls = << >>
        THEN /\ lastEvent' = [type |-> "complete", payload |-> "existing",
                              results |-> [k \in 1..Len(existingResults) |->
                                             WithReview(existingResults[k], flow[i].reviews)]]
             /\ Finally(i)
             /\ SetFlow(i, IdleFlow)
        ELSE /\ SetFlow(i, [flow[i] EXCEPT !.existingResults = existingResults, !.urls = urls,
                                           !.pc = IF urls = << >> THEN "saveReviews" ELSE "crawl"])
             /\ UNCHANGED <<activeAnalysis, lastEvent>>
  /\ UNCHANGED <<stores, lastResponse, nreq, ru, ackReview, nrev>>
  /\ UNCHANGED <<dashboard, detail>>

\* crawler.crawlUrls: await this.fetchPage(url) for the next url of the list
FetchPage(i, fetched) ==
  /\ flow[i].pc = "crawl"
  /\ fetched.url = flow[i].urls[Len(flow[i].crawlResults) + 1]
  /\ LET crawlResults == Append(flow[i].crawlResults, fetched)
     IN SetFlow(i, [flow[i] EXCEPT
                      !.crawlResults = crawlResults,
                      !.pc = IF Len(crawlResults) < Len(flow[i].urls) THEN "crawl"
                             ELSE IF flow[i].kind = "analyze" THEN "saveReviews" ELSE "loadResults"])
  /\ UNCHANGED <<activeAnalysis, stores, lastResponse, nreq, lastEvent, ru, ackReview, nrev>>
  /\ UNCHANGED <<dashboard, detail>>

\* a rejected await (sitemap fetch, results file, crawler): catch, then finally
ScanThrows(i) ==
  /\ \/ flow[i].kind = "analyze" /\ flow[i].pc \in {"parse", "loadResults", "crawl"}
     \/ flow[i].kind = "selective" /\ flow[i].pc \in {"crawl", "loadResults"}
  /\ lastEvent' = [type |-> "error", payload |-> "none", results |-> << >>]
  /\ Finally(i)
  /\ SetFlow(i, IdleFlow)
  /\ UNCHANGED <<stores, lastResponse, nreq, ru, ackReview, nrev>>
  /\ UNCHANGED <<dashboard, detail>>

\* await saveUrlReviews(updatedReviews), then newResults, finalResults, change detection
AnalyzeSaveReviews(i) ==
  /\ flow[i].kind = "analyze" /\ flow[i].pc = "saveReviews"
  /\ LET analysisResults == ProcessPages(flow[i].crawlResults)
         updatedReviews == UpdatedReviews(flow[i].reviews, analysisResults)
         newResults == [k \in 1..Len(analysisResults) |-> WithReview(analysisResults[k], updatedReviews)]
         finalResults == AnalyzeFinalResults(flow[i].scanMode, flow[i].existingResults,
                                             flow[i].reviews, newResults)
         changesDetected == AnalyzeChanges(flow[i].existingResults, finalResults, 1)
     IN /\ urlReviews' = updatedReviews
        /\ SetFlow(i, [flow[i] EXCEPT
                         !.finalResults = finalResults,
                         !.timestampedResults = AnalyzeStamped(flow[i].existingResults, finalResults),
                         !.changesDetected = changesDetected,
                         !.pc = IF Len(changesDetected) > 0 THEN "readHistory" ELSE "saveResults"])
  /\ UNCHANGED <<activeAnalysis, scanResults, changeHistory, nAppended, lastResponse, nreq,
                 lastEvent, ru, ackReview, nrev>>
  /\ UNCHANGED <<dashboard, detail>>

\* saveChangeHistory: await fs.readFile(filePath)
ReadHistory(i) ==
  /\ flow[i].pc = "readHistory"
  /\ SetFlow(i, [flow[i] EXCEPT !.history = changeHistory, !.pc = "writeHistory"])
  /\ UNCHANGED <<activeAnalysis, stores, lastResponse, nreq, lastEvent, ru, ackReview, nrev>>
  /\ UNCHANGED <<dashboard, detail>>

\* saveChangeHistory: push, slice, await fs.writeFile(filePath)
WriteHistory(i) ==
  /\ flow[i].pc = "writeHistory"
  /\ changeHistory' = SaveChangeHistory(flow[i].history, flow[i].changesDetected)
  /\ nAppended' = nAppended + Len(flow[i].changesDetected)
  /\ SetFlow(i, [flow[i] EXCEPT !.history = << >>, !.pc = "saveResults"])
  /\ UNCHANGED <<activeAnalysis, scanResults, urlReviews, lastResponse, nreq, lastEvent, ru,
                 ackReview, nrev>>
  /\ UNCHANGED <<dashboard, detail>>

\* await saveScanResults(sitemapUrl, timestampedResults)
AnalyzeSaveResults(i) ==
  /\ flow[i].kind = "analyze" /\ flow[i].pc = "saveResults"
  /\ scanResults' = flow[i].timestampedResults
  /\ SetFlow(i, [flow[i] EXCEPT !.pc = "complete"])
  /\ UNCHANGED <<activeAnalysis, urlReviews, changeHistory, nAppended, lastResponse, nreq,
                 lastEvent, ru, ackReview, nrev>>
  /\ UNCHANGED <<dashboard, detail>>

\* emit('complete', { results: finalResults }), then finally
ScanComplete(i) ==
  /\ flow[i].pc = "complete"
  /\ lastEvent' = [type |-> "complete",
                   payload |-> IF flow[i].kind = "selective" THEN "selective" ELSE "report",
                   results |-> flow[i].finalResults]
  /\ Finally(i)
  /\ SetFlow(i, IdleFlow)
  /\ UNCHANGED <<stores, lastResponse, nreq, ru, ackReview, nrev>>
  /\ UNCHANGED <<dashboard, detail>>

(* ---------------- POST /api/selective-scan ---------------- *)
SelectiveRequest(urls) ==
  /\ nreq < MaxRequests
  /\ Len(urls) > 0
  /\ nreq' = nreq + 1
  /\ IF AnalysisInProgress
     THEN /\ lastResponse' = "rejected"
          /\ UNCHANGED <<activeAnalysis, flow>>
     ELSE /\ \E i \in ScanIds :
               /\ FreeSlot(i)
               /\ SetFlow(i, [IdleFlow EXCEPT !.kind = "selective", !.pc = "crawl", !.id = nreq + 1,
                                              !.urls = urls])
          /\ activeAnalysis' = nreq + 1
          /\ lastResponse' = "started"
  /\ UNCHANGED <<stores, lastEvent, ru, ackReview, nrev>>
  /\ UNCHANGED <<dashboard, detail>>

\* await loadScanResults(sitemapUrl)
SelectiveLoadResults(i) ==
  /\ flow[i].kind = "selective" /\ flow[i].pc = "loadResults"
  /\ SetFlow(i, [flow[i] EXCEPT !.existingResults = scanResults, !.pc = "loadReviews"])
  /\ UNCHANGED <<activeAnalysis, stores, lastResponse, nreq, lastEvent, ru, ackReview, nrev>>
  /\ UNCHANGED <<dashboard, detail>>

\* await loadUrlReviews()
SelectiveLoadReviews(i) ==
  /\ flow[i].kind = "selective" /\ flow[i].pc = "loadReviews"
  /\ SetFlow(i, [flow[i] EXCEPT !.reviews = urlReviews, !.pc = "saveReviews"])
  /\ UNCHANGED <<activeAnalysis, stores, lastResponse, nreq, lastEvent, ru, ackReview, nrev>>
  /\ UNCHANGED <<dashboard, detail>>

\* await saveUrlReviews(updatedReviews), then timestampedResults and finalResults
SelectiveSaveReviews(i) ==
  /\ flow[i].kind = "selective" /\ flow[i].pc = "saveReviews"
  /\ LET analysisResults == ProcessPages(flow[i].crawlResults)
         updatedReviews == UpdatedReviews(flow[i].reviews, analysisResults)
         timestampedResults == SelectiveStamped(flow[i].existingResults, updatedReviews, analysisResults)
     IN /\ urlReviews' = updatedReviews
        /\ SetFlow(i, [flow[i] EXCEPT
                         !.timestampedResults = timestampedResults,
                         !.finalResults = SelectiveFinalResults(flow[i].existingResults,
                                                                timestampedResults, 1),
                         !.pc = "saveResults"])
  /\ UNCHANGED <<activeAnalysis, scanResults, changeHistory, nAppended, lastResponse, nreq,
                 lastEvent, ru, ackReview, nrev>>
  /\ UNCHANGED <<dashboard, detail>>

\* await saveScanResults(sitemapUrl, finalResults)
SelectiveSaveResults(i) ==
  /\ flow[i].kind = "selective" /\ flow[i].pc = "saveResults"
  /\ scanResults' = flow[i].finalResults
  /\ SetFlow(i, [flow[i] EXCEPT !.pc = "complete"])
  /\ UNCHANGED <<activeAnalysis, urlReviews, changeHistory, nAppended, lastResponse, nreq,
                 lastEvent, ru, ackReview, nrev>>
  /\ UNCHANGED <<dashboard, detail>>

(* ---------------- POST /api/reviews/update ---------------- *)
\* const reviews = await loadUrlReviews()
ReviewUpdateLoad(url, status, assignee, notes) ==
  /\ ru.pc = "idle"
  /\ nrev < MaxReviewUpdates
  /\ nrev' = nrev + 1
  /\ ru' = [pc |-> "save", url |-> url, status |-> status, assignee |-> assignee,
            notes |-> notes, reviews |-> urlReviews]
  /\ UNCHANGED <<activeAnalysis, flow, stores, lastResponse, nreq, lastEvent, ackReview>>
  /\ UNCHANGED <<dashboard, detail>>

\* reviews[url] = { status, assignee, notes, ... }; await saveUrlReviews(reviews); res.json
ReviewUpdateSave ==
  /\ ru.pc = "save"
  /\ urlReviews' = [ru.reviews EXCEPT ![ru.url] =
                      [present |-> TRUE, status |-> ru.status,
                       assignee |-> OrNull(ru.assignee), notes |-> OrNull(ru.notes),
                       lastReviewed |-> "now", analyzed |-> FALSE]]
  /\ ackReview' = [ackReview EXCEPT ![ru.url] = ru.status]
  /\ ru' = NoReviewUpdate
  /\ UNCHANGED <<activeAnalysis, flow, scanResults, changeHistory, nAppended, lastResponse, nreq,
                 lastEvent, nrev>>
  /\ UNCHANGED <<dashboard, detail>>

Next ==
  \/ \E m \in ScanModes, p \in MaxPagesOptions : AnalyzeRequest(m, p)
  \/ \E i \in ScanIds, urls \in UrlLists : AnalyzeParsed(i, urls)
  \/ \E i \in ScanIds : AnalyzeLoadReviews(i)
  \/ \E i \in ScanIds : AnalyzeLoadResults(i)
  \/ \E i \in ScanIds, u \in Urls, page \in Pages : FetchPage(i, CrawlOk(u, page))
  \/ \E i \in ScanIds, u \in Urls : FetchPage(i, CrawlFailed(u))
  \/ \E i \in ScanIds : ScanThrows(i)
  \/ \E i \in ScanIds : AnalyzeSaveReviews(i)
  \/ \E i \in ScanIds : ReadHistory(i)
  \/ \E i \in ScanIds : WriteHistory(i)
  \/ \E i \in ScanIds : AnalyzeSaveResults(i)
  \/ \E i \in ScanIds : ScanComplete(i)
  \/ \E urls \in UrlLists : SelectiveRequest(urls)
  \/ \E i \in ScanIds : SelectiveLoadResults(i)
  \/ \E i \in ScanIds : SelectiveLoadReviews(i)
  \/ \E i \in ScanIds : SelectiveSaveReviews(i)
  \/ \E i \in ScanIds : SelectiveSaveResults(i)
  \/ \E u \in Urls, s \in ReviewStatuses, a \in ReviewAssignees, n \in ReviewNotes :
       ReviewUpdateLoad(u, s, a, n)
  \/ ReviewUpdateSave

Spec == Init /\ [][Next]_vars

(* ======================= properties ======================= *)
AllIdle == \A i \in ScanIds : flow[i].pc = "idle"

\* the flow has run its reconciliation (the code after await saveUrlReviews)
Reconciled(i) == flow[i].pc \in {"readHistory", "writeHistory", "saveResults", "complete"}

\* the fresh batch of the pass
FreshBatch(i) == ProcessPages(flow[i].crawlResults)

\* the entries the pass persists
Persisted(i) ==
  IF flow[i].kind = "analyze" THEN flow[i].timestampedResults ELSE flow[i].finalResults

\* the ChangeEvents of the pass for one url
EventsFor(i, u) ==
  { k \in 1..Len(flow[i].changesDetected) : flow[i].changesDetected[k].url = u }

\* C1: at most one scan flow is active; a scan request that arrives while the flag is
\* set is answered 'Analysis already in progress', starts no flow (a flow starts only in
\* the step of an accepted request) and changes neither the flag nor any store.
C1_SingleScan ==
  /\ [](Cardinality({ i \in ScanIds : flow[i].pc # "idle" }) <= 1)
  /\ [][ (nreq' # nreq /\ activeAnalysis # NoAnalysis)
           => (lastResponse' = "rejected" /\ UNCHANGED <<activeAnalysis, flow, stores>>) ]_vars
  /\ [][ \A i \in ScanIds :
           (flow[i].pc = "idle" /\ flow'[i].pc # "idle")
             => (nreq' # nreq /\ activeAnalysis = NoAnalysis /\ lastResponse' = "started") ]_vars

C1_Witness ==
  /\ lastResponse = "rejected"
  /\ activeAnalysis # NoAnalysis
  /\ \E i \in ScanIds : flow[i].pc = "crawl"

\* C2: once no scan flow is running any more (completion, early return or thrown error)
\* the active-scan flag is clear, so the next request passes the check of the flag.
C2_FlagReleased == AllIdle => activeAnalysis = NoAnalysis

C2_Witness ==
  /\ AllIdle
  /\ lastEvent.type = "error"
  /\ nreq > 0
  /\ activeAnalysis = NoAnalysis

C2_WitnessEarlyReturn ==
  /\ AllIdle
  /\ lastEvent.type = "complete"
  /\ lastEvent.payload = "existing"
  /\ lastEvent.results # << >>
  /\ activeAnalysis = NoAnalysis

\* C3: a review update that was acknowledged is still in the Review Store once no scan
\* and no review request is running.
C3_ReviewSurvivesScan ==
  (AllIdle /\ ru.pc = "idle")
    => \A u \in Urls :
         ackReview[u] # UNDEF
           => (urlReviews[u].present /\ urlReviews[u].status = ackReview[u])

\* C4: after a full-mode scan has saved, every URL of the store it loaded is still in
\* the store, and an entry whose URL was not crawled is unchanged.
C4_FullScanUnion ==
  \A i \in ScanIds :
    (flow[i].kind = "analyze" /\ flow[i].scanMode = "full" /\ flow[i].pc = "complete")
      => \A k \in 1..Len(flow[i].existingResults) :
           LET old == flow[i].existingResults[k]
           IN /\ old.url \in UrlsOf(scanResults)
              /\ old.url \notin UrlsOf(FreshBatch(i))
                   => \E j \in 1..Len(scanResults) : scanResults[j] = old

\* C5: for every URL of the fresh batch of an /api/analyze pass that the loaded store
\* lacks, the pass yields exactly one ChangeEvent for that URL, a new_url event whose
\* newValue is the page's metaDescription, and the persisted entry is flagged new/changed.
C5_OneNewUrlEvent ==
  \A i \in ScanIds :
    (flow[i].kind = "analyze" /\ Reconciled(i))
      => \A b \in 1..Len(FreshBatch(i)) :
           LET r == FreshBatch(i)[b]
           IN r.url \notin UrlsOf(flow[i].existingResults)
                => /\ Cardinality(EventsFor(i, r.url)) = 1
                   /\ \A k \in EventsFor(i, r.url) :
                        /\ flow[i].changesDetected[k].changeType = "new_url"
                        /\ \E e \in 1..Len(Persisted(i)) :
                             /\ Persisted(i)[e].url = r.url
                             /\ Persisted(i)[e].metaDescription = flow[i].changesDetected[k].newValue
                   /\ \A e \in 1..Len(Persisted(i)) :
                        Persisted(i)[e].url = r.url
                          => (Persisted(i)[e].changeType = "new" /\ Persisted(i)[e].hasChanged = "true")

\* C6: when the metaDescription of a rescanned URL differs from the stored one, the
\* /api/analyze pass records exactly one meta_description event with the stored and the
\* fresh value, and the merged entry it returns for the URL has hasChanged = true.
C6_MetaChangeEvent ==
  \A i \in ScanIds :
    (flow[i].kind = "analyze" /\ Reconciled(i))
      => \A k \in 1..Len(flow[i].finalResults) :
           LET r == flow[i].finalResults[k]
               idx == FindIndex(flow[i].existingResults, r.url)
               old == flow[i].existingResults[idx]
           IN (idx # 0 /\ r.url \in UrlsOf(FreshBatch(i)) /\ old.metaDescription # r.metaDescription)
                => /\ Cardinality({ e \in EventsFor(i, r.url) :
                                      flow[i].changesDetected[e].changeType = "meta_description" }) = 1
                   /\ \A e \in EventsFor(i, r.url) :
                        flow[i].changesDetected[e].changeType = "meta_description"
                          => /\ flow[i].changesDetected[e].oldValue = old.metaDescription
                             /\ flow[i].changesDetected[e].newValue = r.metaDescription
                   /\ r.hasChanged = "true"

\* the batch is not empty and each of its results equals, in title and metaDescription,
\* every stored entry of its URL (and there is one)
UnchangedBatch(i) ==
  /\ Len(FreshBatch(i)) > 0
  /\ \A b \in 1..Len(FreshBatch(i)) :
       /\ FreshBatch(i)[b].url \in UrlsOf(flow[i].existingResults)
       /\ \A k \in 1..Len(flow[i].existingResults) :
            flow[i].existingResults[k].url = FreshBatch(i)[b].url
              => /\ flow[i].existingResults[k].title = FreshBatch(i)[b].title
                 /\ flow[i].existingResults[k].metaDescription = FreshBatch(i)[b].metaDescription

\* C7: reconciling a batch that equals the stored entries flags every item of the batch
\* hasChanged = false, changeType = null, yields no ChangeEvent and skips the ledger write.
C7_UnchangedBatch ==
  \A i \in ScanIds :
    (Reconciled(i) /\ UnchangedBatch(i))
      => /\ \A k \in 1..Len(flow[i].timestampedResults) :
              /\ flow[i].timestampedResults[k].hasChanged = "false"
              /\ flow[i].timestampedResults[k].changeType = NULL
         /\ flow[i].changesDetected = << >>
         /\ flow[i].pc \notin {"readHistory", "writeHistory"}

C7_Witness ==
  \E i \in ScanIds :
    /\ flow[i].kind = "analyze"
    /\ flow[i].pc = "saveResults"
    /\ UnchangedBatch(i)
    /\ Len(flow[i].timestampedResults) = 2

\* C8: when only the title of a rescanned URL differs from the stored one, the pass
\* (an /api/analyze or /api/selective-scan pass) yields exactly one ChangeEvent for the
\* URL, of type title with the old and the new title, and persists hasChanged = true,
\* changeType = null.
C8_TitleOnlyChange ==
  \A i \in ScanIds :
    Reconciled(i)
      => \A b \in 1..Len(FreshBatch(i)) :
           LET r == FreshBatch(i)[b]
               idx == FindIndex(flow[i].existingResults, r.url)
               old == flow[i].existingResults[idx]
           IN (idx # 0 /\ old.metaDescription = r.metaDescription /\ old.title # r.title)
                => /\ Cardinality(EventsFor(i, r.url)) = 1
                   /\ \A e \in EventsFor(i, r.url) :
                        /\ flow[i].changesDetected[e].changeType = "title"
                        /\ flow[i].changesDetected[e].oldValue = old.title
                        /\ flow[i].changesDetected[e].newValue = r.title
                   /\ \A e \in 1..Len(flow[i].timestampedResults) :
                        flow[i].timestampedResults[e].url = r.url
                          => /\ flow[i].timestampedResults[e].hasChanged = "true"
                             /\ flow[i].timestampedResults[e].changeType = NULL

\* C9: a selective scan gives each scanned result the hasChanged and changeType that the
\* /api/analyze detection gives for the same stored entries and the same fresh result,
\* and records the same ChangeEvents.
C9_SelectiveAsFull ==
  \A i \in ScanIds :
    (flow[i].kind = "selective" /\ Reconciled(i))
      => /\ \A b \in 1..Len(FreshBatch(i)) :
              LET d == DetectChange(flow[i].existingResults, FreshBatch(i)[b])
              IN /\ flow[i].timestampedResults[b].hasChanged = d.hasChanged
                 /\ flow[i].timestampedResults[b].changeType = d.changeType
         /\ flow[i].changesDetected = AnalyzeChanges(flow[i].existingResults, FreshBatch(i), 1)

(* ---------------- saveChangeHistory, call after call ---------------- *)
\* the sizes of the batches of changes: one or two events of a rescan, the two events per
\* URL of a default scan, and batches around the limit
LedgerBatches == {1, 2, 2 * DefaultMaxPages, MaxHistory - 1, MaxHistory + 1}

\* one call of saveChangeHistory(sitemapUrl, changes); an event is the number it has in
\* the order of all events ever passed to saveChangeHistory
AppendChanges(n) ==
  /\ nAppended + n <= MaxLedgerAppends
  /\ changeHistory' = SaveChangeHistory(changeHistory, [j \in 1..n |-> nAppended + j])
  /\ nAppended' = nAppended + n
  /\ UNCHANGED <<activeAnalysis, flow, scanResults, urlReviews, lastResponse, nreq, lastEvent,
                 ru, ackReview, nrev>>
  /\ UNCHANGED <<dashboard, detail>>

NextLedger == \E n \in LedgerBatches : AppendChanges(n)

SpecLedger == Init /\ [][NextLedger]_vars

\* C10: the ledger never holds more than 1000 events, and it holds exactly the most
\* recent min(n, 1000) of the n events ever appended, in the order they were appended.
C10_LedgerBound ==
  /\ Len(changeHistory) <= MaxHistory
  /\ Len(changeHistory) = Min(nAppended, MaxHistory)
  /\ \A k \in 1..Len(changeHistory) :
       changeHistory[k] = nAppended - Len(changeHistory) + k

C10_Witness ==
  /\ nAppended > MaxHistory + 1
  /\ Len(changeHistory) = MaxHistory
  /\ changeHistory[1] = nAppended - MaxHistory + 1
  /\ changeHistory[MaxHistory] = nAppended

(* ======================= review merge views ======================= *)
\* GET /api/scan-results: results.map(result => ({ ...result, reviewStatus, assignee, ... }))
MergedResults(results, reviews) ==
  [k \in 1..Len(results) |-> WithReview(results[k], reviews)]

ReviewDefaults(result) ==
  /\ result.reviewStatus = "new"
  /\ result.assignee = NULL
  /\ result.notes = NULL
  /\ result.lastReviewed = NULL

\* the step in which scan flow i emits 'complete' (scan completion or incremental early return)
EmitsComplete(i) ==
  flow[i].pc # "idle" /\ flow'[i].pc = "idle" /\ lastEvent'.type = "complete"

C12_ScanLeavesReviewStore ==
  nrev = 0 => urlReviews = NoReviews

\* the step of /api/analyze after loadScanResults, in incremental mode, with every sitemap
\* URL already in the Result Store (the load itself succeeds)
NothingNewStep(i) ==
  /\ flow[i].kind = "analyze" /\ flow[i].pc = "loadResults" /\ flow[i].scanMode = "incremental"
  /\ \A k \in 1..Len(flow[i].urls) : flow[i].urls[k] \in UrlsOf(scanResults)
  /\ flow'[i] # flow[i]
  /\ ~(flow'[i] = IdleFlow /\ lastEvent'.type = "error")

\* C13: in incremental mode, when every sitemap URL is already in the Result Store, the
\* scan fetches no page, writes none of Result Store, Review Store and Change Ledger, and
\* completes in that step with the stored results, each annotated with the review state
\* the scan read from the Review Store.
C13_NothingNewNoWrites ==
  [][\A i \in ScanIds : NothingNewStep(i) =>
       /\ UNCHANGED stores
       /\ flow[i].crawlResults = << >> /\ flow'[i].pc = "idle"
       /\ activeAnalysis' = NoAnalysis
       /\ lastEvent'.type = "complete"
       /\ Len(lastEvent'.results) = Len(scanResults)
       /\ \A k \in 1..Len(scanResults) :
            LET old == scanResults[k]
                new == lastEvent'.results[k]
                review == flow[i].reviews[old.url]
            IN /\ new.url = old.url /\ new.title = old.title
               /\ new.metaDescription = old.metaDescription
               /\ new.status = old.status /\ new.issues = old.issues
               /\ new.hasChanged = old.hasChanged /\ new.changeType = old.changeType
               /\ new.reviewStatus = (IF review.status # UNDEF THEN review.status ELSE "new")
               /\ new.lastReviewed = (IF review.status # UNDEF THEN "now" ELSE NULL)]_vars

\* an incremental scan of a sitemap with stored URLs has returned the stored results
C13_Witness ==
  /\ AllIdle /\ activeAnalysis = NoAnalysis
  /\ lastEvent.type = "complete" /\ lastEvent.payload = "existing"
  /\ Len(lastEvent.results) > 0 /\ Len(lastEvent.results) = Len(scanResults)
  /\ \E k \in 1..Len(lastEvent.results) : lastEvent.results[k].reviewStatus = "reviewed"

(* ======================= page results: status, tree, summary ======================= *)
\* page URLs: the site root, nested paths, a sibling, and a string new URL() rejects
PageUrls == {"https://shop.test/", "https://shop.test/a", "https://shop.test/a/b", "not a url"}

\* meta descriptions of 119, 120, 160 and 161 characters, and none
PageDescriptions == {NULL, "d119", "d120", "d160", "d161"}

\* the values req.body.metaDescription takes in a manual edit (NULL: empty or missing)
EditDescriptions == {NULL, "d119", "d120", "d160", "d161"}

MaxPageList == 3

\* the analysis of one fetched page reaches the Result Store
AnalyzePage(fetched) ==
  /\ Len(scanResults) < MaxPageList
  /\ scanResults' = Append(scanResults, ProcessPage(fetched))
  /\ UNCHANGED <<activeAnalysis, flow, urlReviews, changeHistory, nAppended, lastResponse, nreq,
                 lastEvent, ru, ackReview, nrev>>
  /\ UNCHANGED <<dashboard, detail>>

\* POST /api/scan-results/update: the recalculated fields of results[index]
UpdateResult(result, title, metaDescription) ==
  LET charCount == CharacterCount(metaDescription)
  IN [result EXCEPT
        !.title = title,
        !.metaDescription = metaDescription,
        !.characterCount = charCount,
        !.status = IF charCount = 0 THEN "error"
                   ELSE IF charCount >= MinDescLen /\ charCount <= MaxDescLen THEN "good"
                   ELSE "warning",
        !.issues = IF charCount = 0 THEN << "Missing meta description" >>
                   ELSE IF charCount >= MinDescLen /\ charCount <= MaxDescLen THEN << >>
                   ELSE IF charCount < MinDescLen THEN << "Meta description too short" >>
                   ELSE << "Meta description too long" >>]

\* POST /api/scan-results/update for a stored URL (404 when the URL is not stored)
EditPage(url, title, metaDescription) ==
  /\ FindIndex(scanResults, url) # 0
  /\ scanResults' = [scanResults EXCEPT ![FindIndex(scanResults, url)] =
                        UpdateResult(scanResults[FindIndex(scanResults, url)], title, metaDescription)]
  /\ UNCHANGED <<activeAnalysis, flow, urlReviews, changeHistory, nAppended, lastResponse, nreq,
                 lastEvent, ru, ackReview, nrev>>
  /\ UNCHANGED <<dashboard, detail>>

NextPages ==
  \/ \E u \in PageUrls, d \in PageDescriptions : AnalyzePage(CrawlOk(u, << "t1", d >>))
  \/ \E u \in PageUrls : AnalyzePage(CrawlFailed(u))
  \/ \E u \in PageUrls, d \in EditDescriptions : EditPage(u, "t1", d)

SpecPages == Init /\ [][NextPages]_vars

\* the result of a failed fetch
FetchFailure(result) ==
  result.status = "error" /\ result.issues = << "Failed to fetch: timeout" >>

\* C14: the status of every PageResult produced by a scan or a manual edit follows the
\* description length: error (issue 'Missing meta description') when the description is
\* missing, warning below 120 or above 160 characters, good from 120 to 160 characters
\* when no other issue is flagged (results of failed fetches aside).
C14_StatusByLength ==
  \A k \in 1..Len(scanResults) :
     LET result == scanResults[k]
         length == CharacterCount(result.metaDescription)
     IN ~FetchFailure(result) =>
          /\ length = 0 =>
                result.status = "error" /\ result.issues = << "Missing meta description" >>
          /\ (length > 0 /\ (length < MinDescLen \/ length > MaxDescLen)) =>
                result.status = "warning"
          /\ (length >= MinDescLen /\ length <= MaxDescLen /\ result.issues = << >>) =>
                result.status = "good"

(* ---------------- buildUrlTree ---------------- *)
\* new URL(result.url) succeeds
Parseable(url) == url # "not a url"

\* url.pathname.split('/').filter(p => p)
PathParts(url) ==
  CASE url = "https://shop.test/a" -> << "a" >>
    [] url = "https://shop.test/a/b" -> << "a", "b" >>
    [] OTHER -> << >>

IsPrefix(p, q) == Len(p) <= Len(q) /\ SubSeq(q, 1, Len(p)) = p

\* the nodes the first pass creates: the root and one node per prefix of a path
TreeNodes(results) ==
  { << >> } \cup
  UNION { { SubSeq(PathParts(results[k].url), 1, n) : n \in 1..Len(PathParts(results[k].url)) } :
            k \in { j \in 1..Len(results) : Parseable(results[j].url) } }

\* node.urls: pushed inside pathParts.forEach at index === pathParts.length - 1
NodeUrls(results, node) ==
  { k \in 1..Len(results) :
      /\ Parseable(results[k].url)
      /\ Len(PathParts(results[k].url)) > 0
      /\ PathParts(results[k].url) = node }

Children(nodes, node) ==
  { c \in nodes : Len(c) = Len(node) + 1 /\ IsPrefix(node, c) }

\* the counter a status increments, with every status counted as it is
StatusBucket_asIs(status) == status

\* calculateStats: needs_attention and unknown statuses count as warning
StatusBucket(status) ==
  IF status = "needs_attention" THEN "warning"
  ELSE IF status \in {"good", "warning", "error", "total"} THEN status
  ELSE "warning"

ZeroStats == [good |-> 0, warning |-> 0, error |-> 0, total |-> 0]

AddStats(a, b) ==
  [good |-> a.good + b.good, warning |-> a.warning + b.warning,
   error |-> a.error + b.error, total |-> a.total + b.total]

\* node.urls.forEach: stats[bucket]++, stats.total++
RECURSIVE OwnStats(_, _)
OwnStats(results, urls) ==
  IF urls = {} THEN ZeroStats
  ELSE LET k == CHOOSE j \in urls : TRUE
           rest == OwnStats(results, urls \ {k})
           bucket == StatusBucket(results[k].status)
           counted == IF bucket \in DOMAIN rest
                      THEN [rest EXCEPT ![bucket] = @ + 1] ELSE rest
       IN [counted EXCEPT !.total = @ + 1]

\* calculateStats(node): the node's own urls, then every child's stats added
RECURSIVE CalculateStats(_, _, _)
RECURSIVE ChildStats(_, _, _)
CalculateStats(results, nodes, node) ==
  AddStats(OwnStats(results, NodeUrls(results, node)),
           ChildStats(results, nodes, Children(nodes, node)))

ChildStats(results, nodes, children) ==
  IF children = {} THEN ZeroStats
  ELSE LET c == CHOOSE n \in children : TRUE
       IN AddStats(CalculateStats(results, nodes, c), ChildStats(results, nodes, children \ {c}))

\* buildUrlTree(results): the nodes by path, each with its urls and stats
BuildUrlTree(results) ==
  LET nodes == TreeNodes(results)
  IN [node \in nodes |->
        [path |-> node, urls |-> NodeUrls(results, node),
         stats |-> CalculateStats(results, nodes, node)]]

\* the results attached at the node or below it
Below(results, node) ==
  { k \in 1..Len(results) :
      \E n \in DOMAIN BuildUrlTree(results) :
         IsPrefix(node, n) /\ k \in BuildUrlTree(results)[n].urls }

RECURSIVE SumOfChildren(_, _, _)
SumOfChildren(tree, children, field) ==
  IF children = {} THEN 0
  ELSE LET c == CHOOSE n \in children : TRUE
       IN tree[c].stats[field] + SumOfChildren(tree, children \ {c}, field)

C16_AttachedOnce ==
  LET tree == BuildUrlTree(scanResults)
  IN /\ \A k \in 1..Len(scanResults) :
          Parseable(scanResults[k].url) =>
            \A node \in DOMAIN tree :
               k \in tree[node].urls <=> node = PathParts(scanResults[k].url)
     /\ tree[<< >>].stats.total =
          Cardinality({ k \in 1..Len(scanResults) : Parseable(scanResults[k].url) })

(* ---------------- summaries ---------------- *)
\* this.results.filter(r => r.status === status).length
CountStatus(results, status) ==
  Cardinality({ k \in 1..Len(results) : results[k].status = status })

\* results.filter(r => r.hasMetaDescription).length
CountWithMeta(results) ==
  Cardinality({ k \in 1..Len(results) : results[k].hasMetaDescription })

\* the number of results that have a description
CountDescribed(results) ==
  Cardinality({ k \in 1..Len(results) : results[k].metaDescription \notin {NULL, UNDEF} })

\* Math.round(n / d * 100) for n >= 0, d > 0
RoundPercent(n, d) == (200 * n + d) \div (2 * d)

\* the value standing for Math.round(n / 0 * 100) with n > 0
Infinity == 0 - 1

\* Reporter.generateSummary over this.results
GenerateSummary(results) ==
  LET total == Len(results)
      withMetaDescription == CountWithMeta(results)
      errors == CountStatus(results, "error")
  IN [total |-> total,
      withMetaDescription |-> withMetaDescription,
      missingMetaDescription |-> total - withMetaDescription - errors,
      needsAttention |-> CountStatus(results, "needs_attention"),
      errors |-> errors,
      good |-> CountStatus(results, "good"),
      percentageWithMeta |->
        IF total - errors = 0
        THEN (IF withMetaDescription = 0 THEN 0 ELSE Infinity)
        ELSE RoundPercent(withMetaDescription, total - errors)]

\* generateQuickSummary(results)
GenerateQuickSummary(results) ==
  LET total == Len(results)
      withMetaDescription == CountWithMeta(results)
      errors == CountStatus(results, "error")
  IN [total |-> total,
      withMetaDescription |-> withMetaDescription,
      missingMetaDescription |-> total - withMetaDescription,
      percentageWithMeta |-> IF total > 0 THEN RoundPercent(withMetaDescription, total) ELSE 0,
      good |-> CountStatus(results, "good"),
      warning |-> CountStatus(results, "warning"),
      error |-> errors,
      errors |-> errors]

\* the counts a Summary is to carry for a result set
SummaryAsStated(summary, results) ==
  /\ summary.total = Len(results)
  /\ summary.withMetaDescription = CountDescribed(results)
  /\ summary.percentageWithMeta =
       (IF Len(results) = 0 THEN 0
        ELSE RoundPercent(CountDescribed(results), Len(results)))

\* C17: the Summary of a scan completion is computed over the result set with total = the
\* number of results, good + warning + error = total, withMetaDescription = the number of
\* results with a description and percentageWithMeta = round(100 * withMetaDescription /
\* total), 0 for no results: Reporter.generateSummary at the completion of /api/analyze,
\* generateQuickSummary at the early return and at the completion of /api/selective-scan.
C17_SummaryCounts ==
  /\ SummaryAsStated(GenerateSummary(scanResults), scanResults)
  /\ SummaryAsStated(GenerateQuickSummary(scanResults), scanResults)
  /\ LET quick == GenerateQuickSummary(scanResults)
     IN quick.good + quick.warning + quick.error = quick.total

(* ======================= fetch failures ======================= *)
\* crawler.crawlUrls has returned to the scan flow
CrawlDone(i) ==
  \/ flow[i].kind = "analyze" /\ (flow[i].pc = "saveReviews" \/ Reconciled(i))
  \/ flow[i].kind = "selective"
       /\ flow[i].pc \in {"loadResults", "loadReviews", "saveReviews", "saveResults", "complete"}

\* the step in which a fetch of flow i fails
FetchFails(i) ==
  /\ flow[i].pc = "crawl"
  /\ Len(flow'[i].crawlResults) = Len(flow[i].crawlResults) + 1
  /\ ~flow'[i].crawlResults[Len(flow'[i].crawlResults)].success

\* C18: a fetch failure for a URL yields a result with status error and the single issue
\* 'Failed to fetch: <reason>' and does not abort the batch: the flow goes on to the next
\* URL of the list, and once the crawl has returned the batch holds one result per URL of
\* the list, in order, all of them in the flow's results at completion.
C18_FetchFailureIsolated ==
  /\ [][\A i \in ScanIds : FetchFails(i) =>
          /\ flow'[i].urls = flow[i].urls
          /\ flow'[i].pc = (IF Len(flow'[i].crawlResults) < Len(flow[i].urls) THEN "crawl"
                            ELSE IF flow[i].kind = "analyze" THEN "saveReviews" ELSE "loadResults")
          /\ lastEvent' = lastEvent /\ activeAnalysis' = activeAnalysis]_vars
  /\ [](\A i \in ScanIds : CrawlDone(i) =>
          /\ Len(FreshBatch(i)) = Len(flow[i].urls)
          /\ \A k \in 1..Len(flow[i].urls) :
               /\ FreshBatch(i)[k].url = flow[i].urls[k]
               /\ ~flow[i].crawlResults[k].success =>
                    /\ FreshBatch(i)[k].status = "error"
                    /\ FreshBatch(i)[k].issues = << "Failed to fetch: timeout" >>
               /\ flow[i].pc = "complete" => flow[i].urls[k] \in UrlsOf(flow[i].finalResults))

\* a scan at completion whose first fetch failed and whose second fetch succeeded
C18_Witness ==
  \E i \in ScanIds :
     /\ flow[i].pc = "complete" /\ Len(flow[i].urls) = 2
     /\ ~flow[i].crawlResults[1].success /\ flow[i].crawlResults[2].success
     /\ flow[i].urls[1] # flow[i].urls[2]
     /\ \E k \in 1..Len(flow[i].finalResults) :
          /\ flow[i].finalResults[k].url = flow[i].urls[1]
          /\ flow[i].finalResults[k].status = "error"

(* ======================= dashboard (public/app.js) ======================= *)
\* the results a 'complete' event or GET /api/scan-results hands to the dashboard
DashboardResult(url, status, reviewStatus) ==
  [url |-> url, status |-> status, hasMetaDescription |-> status # "error",
   reviewStatus |-> reviewStatus]

DashboardStatuses == {"good", "error"}
DashboardReviewStatuses == {"new", "in_progress", "reviewed"}

DashboardLists ==
  { << DashboardResult("u1", s1, r1), DashboardResult("u2", s2, r2) >> :
      s1 \in DashboardStatuses, r1 \in DashboardReviewStatuses,
      s2 \in DashboardStatuses, r2 \in DashboardReviewStatuses }

\* the filter controls and the values the model gives them
FilterControls == {"searchFilter", "statusFilter", "reviewStatusFilter"}
ControlValues(control) ==
  CASE control = "searchFilter" -> {"", "u1"}
    [] control = "statusFilter" -> {"", "good"}
    [] control = "reviewStatusFilter" -> {"", "reviewed"}

ViewTabs == {"all", "needs-attention", "in-progress", "tree"}
StatCards == {"all", "good", "warning", "error", "withMeta"}

\* applyFilters: the callback of this.currentResults.filter
PassesFilters(d, result) ==
  /\ ~(d.searchFilter # "" /\ result.url # d.searchFilter)
  /\ ~(d.statusFilter # "" /\ result.status # d.statusFilter)
  /\ ~(d.reviewStatusFilter # "" /\ result.reviewStatus # d.reviewStatusFilter)
  /\ ~(d.currentView = "needs-attention" /\ result.status = "good")
  /\ ~(d.currentView = "in-progress" /\ result.reviewStatus # "in_progress")
  /\ ~(d.hideDone /\ result.reviewStatus = "reviewed")

\* the positions 1..n of an array of n results
Positions(results) == [k \in 1..Len(results) |-> k]

\* applyFilters(): nothing without results, else this.filteredResults = filtered
ApplyFilters(d) ==
  IF ~d.loaded THEN d
  ELSE [d EXCEPT !.filteredResults =
          SelectSeq(Positions(d.currentResults),
                    LAMBDA k : PassesFilters(d, d.currentResults[k]))]

\* displayResults(data) and loadSavedResults(): currentResults = results; applyFilters()
DisplayResults(results) ==
  /\ dashboard' = ApplyFilters([dashboard EXCEPT !.loaded = TRUE, !.currentResults = results])
  /\ UNCHANGED <<server, detail>>

\* input / change on a filter control: applyFilters()
FilterChanged(control, value) ==
  /\ dashboard[control] # value
  /\ dashboard' = ApplyFilters([dashboard EXCEPT ![control] = value])
  /\ UNCHANGED <<server, detail>>

\* switchView(view): the tree view is rendered, a list view re-applies the filters
SwitchView(view) ==
  /\ dashboard' = IF view = "tree" THEN [dashboard EXCEPT !.currentView = view]
                  ELSE ApplyFilters([dashboard EXCEPT !.currentView = view])
  /\ UNCHANGED <<server, detail>>

\* toggleHideDone(): this.hideDone = checkbox.checked; applyFilters()
ToggleHideDone ==
  /\ dashboard' = ApplyFilters([dashboard EXCEPT !.hideDone = ~dashboard.hideDone])
  /\ UNCHANGED <<server, detail>>

\* filterByStatCard(filterType)
FilterByStatCard(filterType) ==
  /\ dashboard.loaded
  /\ dashboard' =
       [dashboard EXCEPT
          !.currentView = "all",
          !.filteredResults =
             SelectSeq(Positions(dashboard.currentResults),
                       LAMBDA k :
                         LET r == dashboard.currentResults[k]
                         IN CASE filterType = "all" -> TRUE
                              [] filterType = "good" -> r.status = "good"
                              [] filterType = "warning" ->
                                   r.status \in {"warning", "needs_attention"}
                              [] filterType = "error" -> r.status = "error"
                              [] filterType = "withMeta" -> r.hasMetaDescription)]
  /\ UNCHANGED <<server, detail>>

\* updateReviewStatus(url, newStatus) after the server's answer: the local result is
\* updated, then applyFilters()
ReviewStatusSaved(url, newStatus) ==
  /\ dashboard.loaded
  /\ LET index == FindIndex(dashboard.currentResults, url)
     IN dashboard' =
          ApplyFilters(IF index = 0 THEN dashboard
                       ELSE [dashboard EXCEPT !.currentResults[index].reviewStatus = newStatus])
  /\ UNCHANGED <<server, detail>>

NextDashboard ==
  \/ \E results \in DashboardLists : DisplayResults(results)
  \/ \E control \in FilterControls : \E value \in ControlValues(control) :
       FilterChanged(control, value)
  \/ \E view \in ViewTabs : SwitchView(view)
  \/ ToggleHideDone
  \/ \E filterType \in StatCards : FilterByStatCard(filterType)
  \/ \E url \in Urls, status \in DashboardReviewStatuses : ReviewStatusSaved(url, status)

SpecDashboard == Init /\ [][NextDashboard]_vars

\* C19: whenever 'Hide Reviewed/Done Items' is enabled, no result with reviewStatus
\* 'reviewed' is in the dashboard's displayed (filtered) list, whichever filter, view tab
\* or stat card was applied last.
C19_HideDone ==
  dashboard.hideDone =>
    \A k \in 1..Len(dashboard.filteredResults) :
       dashboard.currentResults[dashboard.filteredResults[k]].reviewStatus # "reviewed"

(* ======================= incremental merge ======================= *)
\* the scan's own fields of a stored entry (the review annotations aside)
ScanFields(result) ==
  << result.url, result.title, result.metaDescription, result.hasMetaDescription,
     result.characterCount, result.status, result.issues, result.hasChanged, result.changeType >>

\* C20: after an incremental scan that crawls at least one new URL, every entry the
\* Result Store held before is persisted at its old position with its fields unchanged,
\* hasChanged and changeType included, and the new URLs are appended after them in crawl
\* order.
C20_ExistingRetained ==
  \A i \in ScanIds :
     (/\ flow[i].kind = "analyze" /\ flow[i].scanMode = "incremental"
      /\ flow[i].pc = "complete"
      /\ Len(flow[i].crawlResults) >= 1 /\ Len(flow[i].existingResults) >= 1)
     => LET old == flow[i].existingResults
        IN /\ Len(scanResults) = Len(old) + Len(flow[i].urls)
           /\ \A k \in 1..Len(old) : ScanFields(scanResults[k]) = ScanFields(old[k])
           /\ \A k \in 1..Len(flow[i].urls) : scanResults[Len(old) + k].url = flow[i].urls[k]

(* ======================= review requests with an assignee ======================= *)
\* the sitemaps, page and request fields of the requests made one after another
ApiSitemaps == { << "u1" >>, << "u1", "u2" >> }
ApiPage == << "t1", "m1" >>
ApiAssignees == {UNDEF, "alice"}

\* POST /api/reviews/update with any body: const reviews = await loadUrlReviews()
ReviewRequestLoad(url, status, assignee, notes) ==
  /\ ru.pc = "idle"
  /\ ru' = [pc |-> "save", url |-> url, status |-> status, assignee |-> assignee,
            notes |-> notes, reviews |-> urlReviews]
  /\ UNCHANGED <<activeAnalysis, flow, stores, lastResponse, nreq, lastEvent, ackReview, nrev>>
  /\ UNCHANGED <<dashboard, detail>>

\* POST /api/reviews/bulk-update: { ...reviews[url], status, assignee: assignee || kept }
BulkReviewRequest(urls, status, assignee) ==
  /\ urlReviews' =
       [u \in Urls |->
          IF u \in urls
          THEN [urlReviews[u] EXCEPT
                  !.present = TRUE, !.status = status,
                  !.assignee = IF assignee # UNDEF THEN assignee ELSE OrNull(urlReviews[u].assignee),
                  !.lastReviewed = "now"]
          ELSE urlReviews[u]]
  /\ urlReviews' # urlReviews
  /\ UNCHANGED <<activeAnalysis, flow, scanResults, changeHistory, nAppended, lastResponse, nreq,
                 lastEvent, ru, ackReview, nrev>>
  /\ UNCHANGED <<dashboard, detail>>

NextApi ==
  \/ \E m \in ScanModes : AnalyzeRequest(m, DefaultMaxPages)
  \/ \E i \in ScanIds, urls \in ApiSitemaps : AnalyzeParsed(i, urls)
  \/ \E i \in ScanIds : AnalyzeLoadReviews(i)
  \/ \E i \in ScanIds : AnalyzeLoadResults(i)
  \/ \E i \in ScanIds, u \in Urls : FetchPage(i, CrawlOk(u, ApiPage))
  \/ \E i \in ScanIds : AnalyzeSaveReviews(i)
  \/ \E i \in ScanIds : ReadHistory(i)
  \/ \E i \in ScanIds : WriteHistory(i)
  \/ \E i \in ScanIds : AnalyzeSaveResults(i)
  \/ \E i \in ScanIds : ScanComplete(i)
  \/ \E s \in ReviewStatuses, a \in ApiAssignees : ReviewRequestLoad("u1", s, a, UNDEF)
  \/ ReviewUpdateSave
  \/ \E s \in ReviewStatuses, a \in ApiAssignees : BulkReviewRequest({"u1"}, s, a)
  \/ \E d \in {"d120"} : EditPage("u1", "t1", d)

SpecApi == Init /\ [][NextApi]_vars

\* C21: in every merged result set a scan emits, reviewStatus, assignee, notes and
\* lastReviewed of each entry are those of the URL's record in the reviews the scan read
\* ('new' / null where the record or the field is empty); a value left over in the stored
\* entry does not come back.
C21_ReviewFieldsFromStore ==
  \A i \in ScanIds :
     (flow[i].kind = "analyze" /\ flow[i].pc = "complete") =>
       \A k \in 1..Len(flow[i].finalResults) :
          LET result == flow[i].finalResults[k]
              review == flow[i].reviews[result.url]
          IN /\ result.reviewStatus = ReviewStatusOf(review)
             /\ result.assignee = ReviewFieldOf(review, "assignee")
             /\ result.notes = ReviewFieldOf(review, "notes")
             /\ result.lastReviewed = ReviewFieldOf(review, "lastReviewed")

\* C30: the save of a review update for URL u changes only u's ReviewRecord, and an update
\* that supplies neither assignee nor notes leaves u's assignee and notes as they were.
C30_ReviewUpdateFrame ==
  [][(ru.pc = "save" /\ ru'.pc = "idle") =>
       /\ \A v \in Urls \ {ru.url} : urlReviews'[v] = urlReviews[v]
       /\ (ru.assignee = UNDEF /\ ru.notes = UNDEF) =>
            /\ OrNull(urlReviews'[ru.url].assignee) = OrNull(urlReviews[ru.url].assignee)
            /\ OrNull(urlReviews'[ru.url].notes) = OrNull(urlReviews[ru.url].notes)]_vars

\* C22: an edit or single-URL rescan made while a scan is active is not lost: the save of
\* an incremental scan leaves every stored entry of a URL the scan did not crawl with the
\* title and description it had in the Result Store just before that save.
C22_ScanKeepsEdits ==
  [][\A i \in ScanIds :
       (/\ flow[i].kind = "analyze" /\ flow[i].scanMode = "incremental"
        /\ flow[i].pc = "saveResults" /\ flow'[i].pc = "complete")
       => \A k \in 1..Len(scanResults) :
            scanResults[k].url \notin { flow[i].urls[j] : j \in 1..Len(flow[i].urls) }
              => /\ k <= Len(scanResults')
                 /\ scanResults'[k].url = scanResults[k].url
                 /\ scanResults'[k].title = scanResults[k].title
                 /\ scanResults'[k].metaDescription = scanResults[k].metaDescription]_vars

\* C23: no two entries of the persisted Result Store share a URL, whatever scans were
\* run and however often the sitemap or the requested list names a URL.
C23_UniqueUrls ==
  \A j, k \in 1..Len(scanResults) : scanResults[j].url = scanResults[k].url => j = k

\* C25: every persisted page result has characterCount equal to the length of its
\* metaDescription (0 when there is none) and hasMetaDescription true exactly when the
\* metaDescription is non-empty, after any sequence of analyses and manual edits.
C25_DerivedFieldsAgree ==
  \A k \in 1..Len(scanResults) :
    /\ scanResults[k].characterCount = CharacterCount(scanResults[k].metaDescription)
    /\ scanResults[k].hasMetaDescription = (scanResults[k].metaDescription # NULL)

\* the sitemap list of scan i after the incremental filter, against the stored results
FilteredList(i) ==
  IF flow[i].scanMode = "incremental"
  THEN SelectSeq(flow[i].urls, LAMBDA u : \A k \in 1..Len(scanResults) : scanResults[k].url # u)
  ELSE flow[i].urls

\* scan i fixes its crawl list in this step
FixesCrawlList(i) ==
  /\ flow[i].kind = "analyze" /\ flow[i].pc = "loadResults"
  /\ flow'[i].kind = "analyze" /\ flow'[i].pc \in {"crawl", "saveReviews"}

\* scan i fetches one url in this step
FetchesUrl(i) ==
  /\ flow[i].kind = "analyze" /\ flow[i].pc = "crawl"
  /\ Len(flow'[i].crawlResults) = Len(flow[i].crawlResults) + 1

\* C28: the list /api/analyze crawls is the first maxPages urls, in sitemap order, of the
\* sitemap list after the incremental filter; the urls are fetched from that list in order,
\* and an incremental scan fetches no url the Result Store holds.
C28_CrawlListIsCappedPrefix ==
  [][\A i \in ScanIds :
       /\ FixesCrawlList(i) =>
            /\ Len(flow'[i].urls) = IF Len(FilteredList(i)) > flow[i].maxPages
                                    THEN flow[i].maxPages ELSE Len(FilteredList(i))
            /\ \A k \in 1..Len(flow'[i].urls) : flow'[i].urls[k] = FilteredList(i)[k]
       /\ FetchesUrl(i) =>
            /\ flow'[i].crawlResults[Len(flow'[i].crawlResults)].url
                 = flow[i].urls[Len(flow'[i].crawlResults)]
            /\ flow[i].scanMode = "incremental" =>
                 \A k \in 1..Len(scanResults) :
                   scanResults[k].url
                     # flow'[i].crawlResults[Len(flow'[i].crawlResults)].url]_vars

\* an incremental scan capped below its filtered list has fetched its only url
C28_Witness ==
  \E i \in ScanIds :
    /\ flow[i].kind = "analyze" /\ flow[i].scanMode = "incremental"
    /\ flow[i].maxPages = 1
    /\ flow[i].existingResults # << >>
    /\ Len(flow[i].urls) = 1 /\ Len(flow[i].crawlResults) = 1

(* ---------------- the data files by storage key ---------------- *)
\* sitemap URLs as the bytes of Buffer.from(sitemapUrl):
\* https://shop.test/sitemap.xml, https://shop.test/blog/sitemap.xml, https://blog.test/sitemap.xml
SitemapShop ==
  << 104, 116, 116, 112, 115, 58, 47, 47, 115, 104, 111, 112, 46, 116, 101, 115, 116, 47,
     115, 105, 116, 101, 109, 97, 112, 46, 120, 109, 108 >>

SitemapShopBlog ==
  << 104, 116, 116, 112, 115, 58, 47, 47, 115, 104, 111, 112, 46, 116, 101, 115, 116, 47,
     98, 108, 111, 103, 47, 115, 105, 116, 101, 109, 97, 112, 46, 120, 109, 108 >>

SitemapOther ==
  << 104, 116, 116, 112, 115, 58, 47, 47, 98, 108, 111, 103, 46, 116, 101, 115, 116, 47,
     115, 105, 116, 101, 109, 97, 112, 46, 120, 109, 108 >>

SitemapUrls == {SitemapShop, SitemapShopBlog, SitemapOther}

\* substring(0, 20)
KeyLength == 20

\* events one change-history file holds in the runs explored
MaxFileEvents == 1

\* toString('base64'): the 6-bit groups of the bytes, the last one zero-filled; the value
\* of a group is its index in the base64 alphabet (A-Z, a-z, 0-9, '+', '/')
Base64(bytes) ==
  [g \in 1..((8 * Len(bytes) + 5) \div 6) |->
     LET bit == 6 * (g - 1)
         b == bit \div 8
         hi == bytes[b + 1]
         lo == IF b + 2 <= Len(bytes) THEN bytes[b + 2] ELSE 0
     IN ((hi * 256 + lo) \div (2 ^ (10 - (bit % 8)))) % 64]

\* .replace(/[^a-zA-Z0-9]/g, '').substring(0, 20): '+', '/' and the '=' padding go
StorageKey(sitemapUrl) ==
  LET kept == SelectSeq(Base64(sitemapUrl), LAMBDA c : c < 62)
  IN SubSeq(kept, 1, Min(KeyLength, Len(kept)))

ResultsFile(sitemapUrl) == << "scan-results", StorageKey(sitemapUrl) >>

HistoryFile(sitemapUrl) == << "change-history", StorageKey(sitemapUrl) >>

\* loadScanResults: [] when the file does not exist
LoadScanResults(sitemapUrl) ==
  IF ResultsFile(sitemapUrl) \in DOMAIN files THEN files[ResultsFile(sitemapUrl)].contents
  ELSE << >>

\* loadChangeHistory: [] when the file does not exist
LoadChangeHistory(sitemapUrl) ==
  IF HistoryFile(sitemapUrl) \in DOMAIN files THEN files[HistoryFile(sitemapUrl)].contents
  ELSE << >>

\* fs.writeFile(filePath, ...)
WriteFile(fs, name, file) == [f \in DOMAIN fs \cup {name} |-> IF f = name THEN file ELSE fs[f]]

\* saveChangeHistory when there are changes, then saveScanResults (every result is
\* stamped with the sitemapUrl it is saved under)
SaveUnder(sitemapUrl, results, changes) ==
  /\ Len(LoadChangeHistory(sitemapUrl)) + Len(changes) <= MaxFileEvents
  /\ files' =
       WriteFile(IF changes = << >> THEN files
                 ELSE WriteFile(files, HistoryFile(sitemapUrl),
                                [contents |-> SaveChangeHistory(LoadChangeHistory(sitemapUrl), changes)]),
                 ResultsFile(sitemapUrl),
                 [sitemapUrl |-> sitemapUrl, contents |-> results])

\* /api/analyze of a sitemap that lists the one fetched url, from request to saved results
ScanUnder(sitemapUrl, scanMode, fetched) ==
  LET existingResults == LoadScanResults(sitemapUrl)
      analysisResults == ProcessPages(<< fetched >>)
      newResults == [k \in 1..Len(analysisResults) |-> WithReview(analysisResults[k], urlReviews)]
      finalResults == AnalyzeFinalResults(scanMode, existingResults, urlReviews, newResults)
  IN /\ activeAnalysis = NoAnalysis
     /\ ~(scanMode = "incremental" /\ FilterNew(<< fetched.url >>, UrlsOf(existingResults)) = << >>)
     /\ urlReviews' = UpdatedReviews(urlReviews, analysisResults)
     /\ SaveUnder(sitemapUrl, AnalyzeStamped(existingResults, finalResults),
                  AnalyzeChanges(existingResults, finalResults, 1))
     /\ UNCHANGED <<activeAnalysis, flow, scanResults, changeHistory, nAppended, lastResponse,
                    nreq, lastEvent, ru, ackReview, nrev, dashboard, crawler, parser>>

\* /api/rescan-url: the changes against the stored entry
RescanChanges(oldResult, analysisResult) ==
  (IF oldResult.metaDescription # analysisResult.metaDescription
   THEN << ChangeEvent(analysisResult.url, "meta_description",
                       oldResult.metaDescription, analysisResult.metaDescription) >>
   ELSE << >>)
  \o
  (IF oldResult.title # analysisResult.title
   THEN << ChangeEvent(analysisResult.url, "title", oldResult.title, analysisResult.title) >>
   ELSE << >>)

\* /api/rescan-url: updatedScanResults
RescanResults(existingScanResults, analysisResult, reviews, changes) ==
  IF FindIndex(existingScanResults, analysisResult.url) # 0
  THEN [k \in 1..Len(existingScanResults) |->
          IF existingScanResults[k].url = analysisResult.url
          THEN [WithReview(analysisResult, reviews) EXCEPT
                  !.hasChanged = IF changes # << >> THEN "true" ELSE "false",
                  !.changeType = IF changes # << >> THEN "modified" ELSE UNDEF]
          ELSE existingScanResults[k]]
  ELSE Append(existingScanResults, WithReview(analysisResult, reviews))

\* POST /api/rescan-url with a sitemapUrl, for a page that could be fetched
RescanUnder(sitemapUrl, fetched) ==
  LET existingScanResults == LoadScanResults(sitemapUrl)
      analysisResult == ProcessPage(fetched)
      idx == FindIndex(existingScanResults, fetched.url)
      changes == IF idx # 0 THEN RescanChanges(existingScanResults[idx], analysisResult) ELSE << >>
  IN /\ fetched.success
     /\ urlReviews' = [urlReviews EXCEPT ![fetched.url] =
                         [@ EXCEPT !.present = TRUE, !.analyzed = TRUE]]
     /\ SaveUnder(sitemapUrl,
                  RescanResults(existingScanResults, analysisResult, urlReviews, changes), changes)
     /\ UNCHANGED <<activeAnalysis, flow, scanResults, changeHistory, nAppended, lastResponse,
                    nreq, lastEvent, ru, ackReview, nrev, dashboard, crawler, parser>>

\* POST /api/scan-results/update under a sitemapUrl (404 when the URL is not stored)
EditUnder(sitemapUrl, url, title, metaDescription) ==
  LET results == LoadScanResults(sitemapUrl)
      index == FindIndex(results, url)
  IN /\ index # 0
     /\ SaveUnder(sitemapUrl, [results EXCEPT ![index] = UpdateResult(results[index], title, metaDescription)],
                  << >>)
     /\ UNCHANGED <<activeAnalysis, flow, scanResults, urlReviews, changeHistory, nAppended,
                    lastResponse, nreq, lastEvent, ru, ackReview, nrev, dashboard, crawler, parser>>

StoragePages == { << "t1", "m1" >>, << "t2", "m2" >> }

NextStorage ==
  \/ \E a \in SitemapUrls, m \in ScanModes, u \in Urls :
       ScanUnder(a, m, CrawlOk(u, << "t1", "m1" >>))
  \/ \E a \in SitemapUrls, page \in StoragePages : RescanUnder(a, CrawlOk("u1", page))
  \/ \E a \in SitemapUrls : EditUnder(a, "u1", "t1", "d120")

SpecStorage == Init /\ [][NextStorage]_vars

\* the step saved results under sitemap URL a
SavesUnder(a) ==
  /\ ResultsFile(a) \in DOMAIN files'
  /\ files'[ResultsFile(a)].sitemapUrl = a
  /\ ResultsFile(a) \in DOMAIN files => files'[ResultsFile(a)] # files[ResultsFile(a)]

\* C24: distinct sitemap URLs have distinct storage keys, and a scan, rescan or edit under
\* sitemap URL a leaves what is loaded for every other sitemap URL b as it was.
C24_SitemapsIsolated ==
  [][\A a, b \in SitemapUrls :
       a # b =>
         /\ StorageKey(a) # StorageKey(b)
         /\ SavesUnder(a) =>
              /\ LoadScanResults(b)' = LoadScanResults(b)
              /\ LoadChangeHistory(b)' = LoadChangeHistory(b)]_vars

(* ---------------- the chunked crawl of /api/analyze ---------------- *)
\* parseInt(options.chunkSize) || 10
DefaultChunkSize == 10

MaxCrawlLen == 4

MaxChunkSize == 3

\* options.chunkSize as sent: 0 stands for a missing, zero or non-numeric value
ChunkSizeOptions == 0..MaxChunkSize

ChunkSizeOf(option) == IF option = 0 THEN DefaultChunkSize ELSE option

\* for (i = 0; i < urls.length; i += chunkSize) chunks.push(urls.slice(i, i + chunkSize))
Chunks(urls, chunkSize) ==
  [c \in 1..((Len(urls) + chunkSize - 1) \div chunkSize) |->
     SubSeq(urls, (c - 1) * chunkSize + 1, Min(c * chunkSize, Len(urls)))]

\* the chunk the crawler c is working on
CurrentChunk(c) == Chunks(c.urls, c.chunkSize)[c.chunkIndex + 1]

\* a progress count that starts over in every chunk
ProgressCurrent_chunkLocal(processedCount, current) == current

\* current: processedCount + progress.current
ProgressCurrent(processedCount, current) == processedCount + current

\* a pause after every chunk, the last one too
PauseAfter_every(chunkIndex, nChunks) == chunkIndex < nChunks

\* if (chunkIndex < chunks.length - 1) await setTimeout(2000)
PauseAfter(chunkIndex, nChunks) == chunkIndex < nChunks - 1

\* crawlUrls loop body up to its await: onProgress, then this.fetchPage(url) starts
StartFetch(c) ==
  LET url == CurrentChunk(c)[c.i + 1]
      current == ProgressCurrent(c.processedCount, c.i + 1)
  IN [c EXCEPT !.pc = "fetch",
               !.events = Append(@, [current |-> current, total |-> Len(c.urls),
                                     percentage |-> RoundPercent(current, Len(c.urls)),
                                     url |-> url]),
               !.log = Append(@, [ev |-> "start", url |-> url, chunk |-> c.chunkIndex])]

\* chunkIndex++ and the loop test: the next chunk's crawlUrls, or the end of the loop
NextChunk(c) ==
  LET next == [c EXCEPT !.chunkIndex = @ + 1, !.i = 0]
  IN IF next.chunkIndex < Len(Chunks(c.urls, c.chunkSize)) THEN StartFetch(next)
     ELSE [next EXCEPT !.pc = "done"]

\* the chunk loop is entered with the capped url list
CrawlStart(urls, option) ==
  /\ crawler.pc = "idle"
  /\ crawler' = IF urls = << >>
                THEN [IdleCrawler EXCEPT !.pc = "done", !.chunkSize = ChunkSizeOf(option)]
                ELSE StartFetch([IdleCrawler EXCEPT !.urls = urls, !.chunkSize = ChunkSizeOf(option)])
  /\ UNCHANGED <<server, dashboard, files, parser>>

\* await this.fetchPage(url) resolves (fetchPage catches its errors: success or not);
\* after the chunk's last url crawlUrls returns and the chunk loop goes on to its pause
FetchResolved(success) ==
  /\ crawler.pc = "fetch"
  /\ LET url == CurrentChunk(crawler)[crawler.i + 1]
         fetched == [crawler EXCEPT
                       !.results = Append(@, [url |-> url, success |-> success]),
                       !.log = Append(@, [ev |-> "end", url |-> url, chunk |-> crawler.chunkIndex])]
         returned == [fetched EXCEPT !.allResults = @ \o fetched.results,
                                     !.results = << >>,
                                     !.processedCount = @ + Len(CurrentChunk(crawler))]
     IN crawler' =
          IF crawler.i < Len(CurrentChunk(crawler)) - 1
          THEN [fetched EXCEPT !.pc = "delay"]
          ELSE IF PauseAfter(crawler.chunkIndex, Len(Chunks(crawler.urls, crawler.chunkSize)))
               THEN [returned EXCEPT
                       !.pc = "pause",
                       !.log = Append(@, [ev |-> "pause", url |-> NULL, chunk |-> crawler.chunkIndex])]
               ELSE NextChunk(returned)
  /\ UNCHANGED <<server, dashboard, files, parser>>

\* await this.delay(this.delayMs) is over: i++ and the next url of the chunk
DelayElapsed ==
  /\ crawler.pc = "delay"
  /\ crawler' = StartFetch([crawler EXCEPT !.i = @ + 1])
  /\ UNCHANGED <<server, dashboard, files, parser>>

\* the 2000 ms between two chunks are over
PauseElapsed ==
  /\ crawler.pc = "pause"
  /\ crawler' = NextChunk(crawler)
  /\ UNCHANGED <<server, dashboard, files, parser>>

\* the loop is left: allResults go to the analysis
CrawlReturned ==
  /\ crawler.pc = "done"
  /\ crawler' = [crawler EXCEPT !.pc = "returned"]
  /\ UNCHANGED <<server, dashboard, files, parser>>

NextCrawl ==
  \/ \E urls \in SeqsUpTo(MaxCrawlLen), option \in ChunkSizeOptions : CrawlStart(urls, option)
  \/ \E success \in BOOLEAN : FetchResolved(success)
  \/ DelayElapsed
  \/ PauseElapsed
  \/ CrawlReturned

SpecCrawl == Init /\ [][NextCrawl]_vars

\* the fetches started, in the order they started
FetchStarts == SelectSeq(crawler.log, LAMBDA e : e.ev = "start")

\* fetches started and not yet completed after the first k entries of the log
InFlight(k) ==
  Cardinality({j \in 1..k : crawler.log[j].ev = "start"})
    - Cardinality({j \in 1..k : crawler.log[j].ev = "end"})

\* C26: within one scan at most one fetch is in flight, the urls are fetched in input
\* order, every fetch of a chunk completes before a fetch of the next chunk starts, the
\* pause stands between two consecutive chunks, and there is no pause after the last chunk.
C26_FetchOrder ==
  LET log == crawler.log
      nChunks == Len(Chunks(crawler.urls, crawler.chunkSize))
  IN /\ \A k \in 1..Len(log) : InFlight(k) \in {0, 1}
     /\ Len(FetchStarts) <= Len(crawler.urls)
     /\ \A k \in 1..Len(FetchStarts) :
          /\ FetchStarts[k].url = crawler.urls[k]
          /\ FetchStarts[k].chunk = (k - 1) \div crawler.chunkSize
     /\ \A a, b \in 1..Len(log) :
          (log[a].ev = "start" /\ log[b].ev = "end" /\ log[b].chunk < log[a].chunk) => b < a
     /\ \A a \in 2..Len(log) :
          (log[a].ev = "start" /\ log[a - 1].chunk < log[a].chunk) =>
             /\ log[a - 1].ev = "pause"
             /\ log[a - 1].chunk = log[a].chunk - 1
     /\ \A a \in 1..Len(log) : log[a].ev = "pause" => log[a].chunk < nChunks - 1
     /\ crawler.pc = "done" =>
          /\ Len(FetchStarts) = Len(crawler.urls)
          /\ Len(crawler.allResults) = Len(crawler.urls)
          /\ Cardinality({a \in 1..Len(log) : log[a].ev = "pause"}) = IF nChunks = 0 THEN 0 ELSE nChunks - 1

\* a crawl of three chunks is over
C26_Witness ==
  /\ crawler.pc = "done"
  /\ Len(Chunks(crawler.urls, crawler.chunkSize)) = 3
  /\ Len(crawler.allResults) = 3

\* C27: the crawl-progress events of one scan carry current = 1, 2, 3, ... one event per
\* fetched url, up to the number of crawled urls across the chunk boundaries, and no
\* percentage is above 100.
C27_ProgressCounts ==
  /\ Len(crawler.events) = Len(FetchStarts)
  /\ \A k \in 1..Len(crawler.events) :
       /\ crawler.events[k].current = k
       /\ crawler.events[k].url = crawler.urls[k]
       /\ crawler.events[k].total = Len(crawler.urls)
       /\ crawler.events[k].percentage <= 100
  /\ crawler.pc = "done" =>
       /\ Len(crawler.events) = Len(crawler.urls)
       /\ crawler.urls # << >> => crawler.events[Len(crawler.events)].percentage = 100

\* a crawl of two chunks has emitted the event of its last url
C27_Witness ==
  /\ crawler.pc = "done"
  /\ Len(Chunks(crawler.urls, crawler.chunkSize)) = 2
  /\ Len(crawler.events) = 3
  /\ crawler.events[3].current = 3

(* ---------------- the expansion of the sitemap documents ---------------- *)
\* frames of getAllUrls kept; deeper than any chain of distinct documents below
MaxParseDepth == 3

PageItem(url) == [type |-> "url", url |-> url]

SitemapItem(url) == [type |-> "sitemap", url |-> url]

\* a finite collection of sitemap documents, as parseXmlSitemap returns their entries:
\* two url sets, an index of a url set, an index that lists itself, two indexes that list
\* each other
SitemapDocument(sitemapUrl) ==
  CASE sitemapUrl = "pages.xml" -> << PageItem("u1"), PageItem("u2") >>
    [] sitemapUrl = "shop.xml" -> << PageItem("u1") >>
    [] sitemapUrl = "index.xml" -> << SitemapItem("shop.xml"), SitemapItem("pages.xml") >>
    [] sitemapUrl = "self.xml" -> << SitemapItem("shop.xml"), SitemapItem("self.xml") >>
    [] sitemapUrl = "ping.xml" -> << SitemapItem("pong.xml") >>
    [] sitemapUrl = "pong.xml" -> << SitemapItem("ping.xml") >>

SitemapNames == {"pages.xml", "shop.xml", "index.xml", "self.xml", "ping.xml", "pong.xml"}

\* a call of getAllUrls on top of the calls that await it; of a chain longer than
\* MaxParseDepth the innermost calls are kept
PushCall(stack, sitemapUrl) ==
  LET frame == [doc |-> sitemapUrl, pos |-> 1, allUrls |-> << >>]
  IN IF Len(stack) < MaxParseDepth THEN Append(stack, frame)
     ELSE Append(Tail(stack), frame)

\* getAllUrls from the entry at pos on: a url is pushed, a sitemap entry awaits the
\* recursive call, the end of the entries returns allUrls to the awaiting call
RECURSIVE Resume(_)
Resume(stack) ==
  LET top == stack[Len(stack)]
      items == SitemapDocument(top.doc)
  IN IF top.pos > Len(items)
     THEN IF Len(stack) = 1
          THEN [pc |-> "done", fetching |-> NULL, stack |-> << >>, allUrls |-> top.allUrls]
          ELSE LET caller == stack[Len(stack) - 1]
               IN Resume(Append(SubSeq(stack, 1, Len(stack) - 2),
                                [caller EXCEPT !.allUrls = @ \o top.allUrls, !.pos = @ + 1]))
     ELSE IF items[top.pos].type = "sitemap"
          THEN [pc |-> "fetching", fetching |-> items[top.pos].url, stack |-> stack,
                allUrls |-> << >>]
          ELSE Resume([stack EXCEPT ![Len(stack)] =
                         [top EXCEPT !.allUrls = Append(@, items[top.pos].url), !.pos = @ + 1]])

\* POST /api/analyze up to the first await: the request for the sitemap document is out
AnalyzeSitemap(scanMode, sitemapUrl) ==
  /\ nreq < MaxRequests
  /\ nreq' = nreq + 1
  /\ IF AnalysisInProgress
     THEN /\ lastResponse' = "rejected"
          /\ UNCHANGED <<activeAnalysis, flow, parser>>
     ELSE /\ \E i \in ScanIds :
               /\ FreeSlot(i)
               /\ SetFlow(i, [IdleFlow EXCEPT !.kind = "analyze", !.pc = "parse", !.id = nreq + 1,
                                              !.scanMode = scanMode])
               /\ parser' = [parser EXCEPT ![i] = [pc |-> "fetching", fetching |-> sitemapUrl,
                                                   stack |-> << >>]]
          /\ activeAnalysis' = nreq + 1
          /\ lastResponse' = "started"
  /\ UNCHANGED <<stores, lastEvent, ru, ackReview, nrev, dashboard, files, crawler>>

\* await axios.get(sitemapUrl) resolves inside getAllUrls: the document is parsed and its
\* entries are walked up to the next sitemap entry, or up to the return of all urls
SitemapFetched(i) ==
  /\ flow[i].kind = "analyze" /\ flow[i].pc = "parse"
  /\ parser[i].pc = "fetching"
  /\ LET r == Resume(PushCall(parser[i].stack, parser[i].fetching))
     IN IF r.pc = "done"
        THEN /\ parser' = [parser EXCEPT ![i] = IdleParser]
             /\ SetFlow(i, [flow[i] EXCEPT !.urls = r.allUrls, !.pc = "loadReviews"])
        ELSE /\ parser' = [parser EXCEPT ![i] = [pc |-> "fetching", fetching |-> r.fetching,
                                                 stack |-> r.stack]]
             /\ UNCHANGED flow
  /\ UNCHANGED <<activeAnalysis, stores, lastResponse, nreq, lastEvent, ru, ackReview, nrev,
                 dashboard, files, crawler>>

\* axios.get(sitemapUrl) rejects: 'Failed to fetch sitemap', the scan's catch and finally
SitemapFetchFails(i) ==
  /\ flow[i].kind = "analyze" /\ flow[i].pc = "parse"
  /\ parser[i].pc = "fetching"
  /\ parser' = [parser EXCEPT ![i] = IdleParser]
  /\ lastEvent' = [type |-> "error", payload |-> "none", results |-> << >>]
  /\ Finally(i)
  /\ SetFlow(i, IdleFlow)
  /\ UNCHANGED <<stores, lastResponse, nreq, ru, ackReview, nrev, dashboard, files, crawler>>

\* the steps an accepted scan takes once its awaited operation has resolved
ScanProgress ==
  \E i \in ScanIds :
    \/ SitemapFetched(i)
    \/ AnalyzeLoadReviews(i)
    \/ AnalyzeLoadResults(i)
    \/ \E u \in Urls : FetchPage(i, CrawlOk(u, ApiPage))
    \/ AnalyzeSaveReviews(i)
    \/ ReadHistory(i)
    \/ WriteHistory(i)
    \/ AnalyzeSaveResults(i)
    \/ ScanComplete(i)

NextSitemap ==
  \/ \E m \in ScanModes, sitemapUrl \in SitemapNames : AnalyzeSitemap(m, sitemapUrl)
  \/ \E i \in ScanIds : SitemapFetched(i)
  \/ \E i \in ScanIds : SitemapFetchFails(i)
  \/ \E i \in ScanIds : AnalyzeLoadReviews(i)
  \/ \E i \in ScanIds : AnalyzeLoadResults(i)
  \/ \E i \in ScanIds, u \in Urls : FetchPage(i, CrawlOk(u, ApiPage))
  \/ \E i \in ScanIds : AnalyzeSaveReviews(i)
  \/ \E i \in ScanIds : ReadHistory(i)
  \/ \E i \in ScanIds : WriteHistory(i)
  \/ \E i \in ScanIds : AnalyzeSaveResults(i)
  \/ \E i \in ScanIds : ScanComplete(i)

\* every awaited operation of a scan resolves or rejects in the end
SpecSitemap == Init /\ [][NextSitemap]_vars /\ WF_vars(ScanProgress)

\* C29: the expansion of the sitemap documents ends for every finite collection of
\* documents, so every accepted scan reaches its cleanup and releases the active-scan flag.
C29_ScanReleasesFlag == (activeAnalysis # NoAnalysis) ~> (activeAnalysis = NoAnalysis)

====
